---- MODULE Spec2Model ----
(***************************************************************************)
(* The repository pattern example: the contract IStoreRepository and its   *)
(* two backends, InMemoryRepository (src/repositories/in-memory.repo.ts)   *)
(* and FileRepository (src/repositories/file.repo.ts).                     *)
(*                                                                         *)
(* A behaviour is one caller holding one repository (`repo`) and issuing   *)
(* contract operations one at a time, each awaited before the next.  Every *)
(* action is one whole handler.  `last` records the call just made.  When  *)
(* that call is a createPost, `prev` records the call before it; when it   *)
(* is a read, `prev` records the latest getAllPosts made before it with no *)
(* createPost, updatePost or deletePost in between.                        *)
(*                                                                         *)
(* JavaScript values are modelled as follows.  A number is an integer.  A  *)
(* Date is [k |-> "Date", ms |-> t], t the milliseconds since the seed     *)
(* date.  A string holding a time is [k |-> "string", fmt, ms]: fmt is     *)
(* "iso" for the output of toISOString and "date" for the date-only text   *)
(* of the seed.  A string of decimal digits (an id of the in-memory        *)
(* backend) is the sequence of its characters.  Titles and other opaque    *)
(* texts are TLA+ strings.  undefined is Undefined.                        *)
(***************************************************************************)
EXTENDS Integers, Sequences, FiniteSets, TLC

\* Bounds of the model: the createPost calls of a behaviour, the last instant
\* the clock shows, and the calls a caller starts without awaiting them.
MaxCreates == 1
MaxClock == 1
MaxTasks == 2

\* The instant of the seed's "2021-01-01", the origin of the model's clock.
SeedTime == 0

Undefined == [k |-> "undefined"]

(***************************************************************************)
(* Conversions                                                             *)
(***************************************************************************)
Digit(d) == CASE d = 0 -> "0" [] d = 1 -> "1" [] d = 2 -> "2" [] d = 3 -> "3"
              [] d = 4 -> "4" [] d = 5 -> "5" [] d = 6 -> "6" [] d = 7 -> "7"
              [] d = 8 -> "8" [] d = 9 -> "9"

DigitValue(c) == CASE c = "0" -> 0 [] c = "1" -> 1 [] c = "2" -> 2 [] c = "3" -> 3
                   [] c = "4" -> 4 [] c = "5" -> 5 [] c = "6" -> 6 [] c = "7" -> 7
                   [] c = "8" -> 8 [] c = "9" -> 9

\* String(n) of a non-negative integer: its decimal digits.
RECURSIVE String(_)
String(n) == IF n < 10 THEN <<Digit(n)>> ELSE String(n \div 10) \o <<Digit(n % 10)>>

\* String(s) of a value that is a string already: that string.
StringOfString(s) == s

\* Number(s) of a string of decimal digits.
RECURSIVE Number(_)
Number(s) == IF Len(s) = 0 THEN 0
             ELSE 10 * Number(SubSeq(s, 1, Len(s) - 1)) + DigitValue(s[Len(s)])

\* new Date() when the clock shows t.
NewDate(t) == [k |-> "Date", ms |-> t]

\* d.toISOString()
toISOString(d) == [k |-> "string", fmt |-> "iso", ms |-> d.ms]

\* new Date(s) of a string holding a time.
DateFromString(s) == [k |-> "Date", ms |-> s.ms]

\* The instant a timestamp value denotes.
TimeOf(v) == v.ms

\* The text "2021-01-01" of the seed.
SeedDateString == [k |-> "string", fmt |-> "date", ms |-> SeedTime]

(***************************************************************************)
(* Array helpers                                                           *)
(***************************************************************************)
\* Array.prototype.findIndex, given the callback's value on each element: the
\* 0-based index of the first element it holds of, or -1.
findIndex(matches) ==
    IF \E i \in DOMAIN matches : matches[i]
    THEN (CHOOSE i \in DOMAIN matches :
            matches[i] /\ \A j \in 1..(i - 1) : ~matches[j]) - 1
    ELSE -1

\* Array.prototype.find, given the callback's value on each element: the first
\* element it holds of, or undefined.
find(s, matches) ==
    IF findIndex(matches) # -1 THEN s[findIndex(matches) + 1] ELSE Undefined

\* A variant of Splice without the count, s.splice(index): s without the
\* element at the index and all that follow it.
Splice_dropsRest(s, index) == SubSeq(s, 1, index)

\* s.splice(index, 1): s without the element at the 0-based index.
Splice(s, index) == SubSeq(s, 1, index) \o SubSeq(s, index + 2, Len(s))

\* s[index] = x, index 0-based.
SetAt(s, index, x) == [s EXCEPT ![index + 1] = x]

\* s[index], index 0-based.
At(s, index) == s[index + 1]

(***************************************************************************)
(* State                                                                   *)
(***************************************************************************)
VARIABLES
    repo,       \* the backend the caller constructed: "in-memory" or "file"
    posts,      \* InMemoryRepository.posts
    FilePosts,  \* FileRepository.FilePosts, Undefined until the first load
    db,         \* the text of db.json
    now,        \* the clock
    creates,    \* the createPost calls made so far
    last,       \* the call just made: operation, argument, outcome, value
    prev,       \* the call before a createPost; the getAllPosts before a read
    twin,       \* with both backends driven together: the FileRepository's call
    loads,      \* the times FilePosts was assigned from the file
    tasks       \* FileRepository calls in flight, when calls are not awaited

vars == <<repo, posts, FilePosts, db, now, creates, last, prev, twin, loads, tasks>>

\* The payloads the caller passes to createPost and, with an id, to updatePost.
CreatePayloads ==
    { [title |-> "T", description |-> "D", body |-> "B", createdBy |-> "alice"] }

UpdateContents == { [title |-> "U", description |-> "UD", body |-> "UB"] }

\* The ids the caller asks for: every id the backends can assign (the seeds hold
\* two posts), and one more.
Ids == 1..(2 + MaxCreates + 1)

UpdatePayloads ==
    { [id |-> i, title |-> c.title, description |-> c.description, body |-> c.body] :
        i \in Ids, c \in UpdateContents }

\* The values the clock may show at a read made when it showed at least t.
ClockFrom(t) == t..MaxClock

NoCall == [op |-> "none", arg |-> Undefined, outcome |-> "none",
           value |-> Undefined, len |-> 0, index |-> -1]

\* The record of a call: `len` is the length of the collection when the handler
\* started and `index` the 0-based index it acted on (-1: none).
Call(op, arg, outcome, value, len, index) ==
    [op |-> op, arg |-> arg, outcome |-> outcome, value |-> value,
     len |-> len, index |-> index]

NotFoundError == [error |-> "Post not found"]

\* The latest getAllPosts with no createPost, updatePost or deletePost after
\* it, when the call just made is `call` and `before` was that for the calls
\* before it; NoCall if there is none.
latestGetAll(call, before) ==
    IF call.op = "getAllPosts" /\ call.outcome = "resolved" THEN call
    ELSE IF call.op \in {"getPostById", "none"} THEN before
    ELSE NoCall

(***************************************************************************)
(* InMemoryRepository                                                      *)
(***************************************************************************)
SeedPosts ==
    << [id |-> <<"1">>, post_title |-> "First Post",
        post_body |-> "This is the first post",
        post_description |-> "This is the first post",
        post_created |-> SeedDateString, post_updated |-> SeedDateString,
        username |-> "johndoe"],
       [id |-> <<"2">>, post_title |-> "Second Post",
        post_body |-> "This is the second post",
        post_description |-> "This is the second post",
        post_created |-> SeedDateString, post_updated |-> SeedDateString,
        username |-> "janedoe"] >>

inMemoryPostToPostModel(post) ==
    [id |-> Number(post.id),
     title |-> post.post_title,
     description |-> post.post_description,
     body |-> post.post_body,
     created |-> DateFromString(post.post_created),
     updated |-> DateFromString(post.post_updated),
     createdBy |-> post.username]

\* getAllPosts: the value the promise resolves with.
InMemory_getAllPosts_value(ps) ==
    [i \in DOMAIN ps |-> inMemoryPostToPostModel(ps[i])]

\* getPostById: the value the promise resolves with.
InMemory_getPostById_value(ps, id) ==
    LET post == find(ps, [i \in DOMAIN ps |-> ps[i].id = String(id)])
    IN  IF post # Undefined THEN inMemoryPostToPostModel(post) ELSE Undefined

\* A variant of InMemory_newPost that takes the length itself as the id.
InMemory_newPost_idIsLength(ps, post, t1, t2) ==
    [id |-> String(Len(ps)),
     post_title |-> post.title,
     post_body |-> post.body,
     post_description |-> post.description,
     post_created |-> toISOString(NewDate(t1)),
     post_updated |-> toISOString(NewDate(t2)),
     username |-> post.createdBy]

\* createPost: the record built from the payload, the clock read twice.
InMemory_newPost(ps, post, t1, t2) ==
    [id |-> String(Len(ps) + 1),
     post_title |-> post.title,
     post_body |-> post.body,
     post_description |-> post.description,
     post_created |-> toISOString(NewDate(t1)),
     post_updated |-> toISOString(NewDate(t2)),
     username |-> post.createdBy]

\* updatePost: the index found.  The callback's parameter `post` shadows the
\* handler's argument, so each element's id is compared with String of itself
\* and the argument's id is not read.
InMemory_updateIndex(ps, post) ==
    findIndex([i \in DOMAIN ps |-> ps[i].id = StringOfString(ps[i].id)])

\* A variant of InMemory_updatedPost that stamps post_created instead of
\* post_updated.
InMemory_updatedPost_stampsCreated(old, post, t) ==
    [old EXCEPT !.post_title = post.title,
                !.post_body = post.body,
                !.post_description = post.description,
                !.post_created = toISOString(NewDate(t))]

\* updatePost: the record stored at the index found.
InMemory_updatedPost(old, post, t) ==
    [old EXCEPT !.post_title = post.title,
                !.post_body = post.body,
                !.post_description = post.description,
                !.post_updated = toISOString(NewDate(t))]

\* deletePost: the index found.
InMemory_deleteIndex(ps, id) ==
    findIndex([i \in DOMAIN ps |-> ps[i].id = String(id)])

InMemory_getAllPosts ==
    /\ repo = "in-memory"
    /\ last' = Call("getAllPosts", Undefined, "resolved",
                    [list |-> InMemory_getAllPosts_value(posts)], Len(posts), -1)
    /\ prev' = latestGetAll(last, prev)
    /\ UNCHANGED <<twin, loads, tasks, repo, creates, posts, FilePosts, db, now>>

InMemory_getPostById ==
    /\ repo = "in-memory"
    /\ \E id \in Ids :
         last' = Call("getPostById", [id |-> id], "resolved",
                      InMemory_getPostById_value(posts, id), Len(posts),
                      findIndex([i \in DOMAIN posts |-> posts[i].id = String(id)]))
    /\ prev' = latestGetAll(last, prev)
    /\ UNCHANGED <<twin, loads, tasks, repo, creates, posts, FilePosts, db, now>>

InMemory_createPost ==
    /\ repo = "in-memory"
    /\ creates < MaxCreates
    /\ creates' = creates + 1
    /\ \E post \in CreatePayloads : \E t1 \in ClockFrom(now) : \E t2 \in ClockFrom(t1) :
         LET newPost == InMemory_newPost(posts, post, t1, t2)
         IN  /\ posts' = Append(posts, newPost)
             /\ now' = t2
             /\ last' = Call("createPost", post, "resolved",
                             inMemoryPostToPostModel(newPost), Len(posts), Len(posts))
    /\ prev' = last
    /\ UNCHANGED <<twin, loads, tasks, repo, FilePosts, db>>

\* With no index found the executor returns without calling resolve: the
\* promise stays pending.
InMemory_updatePost ==
    /\ repo = "in-memory"
    /\ \E post \in UpdatePayloads :
         LET index == InMemory_updateIndex(posts, post)
         IN  IF index # -1
             THEN \E t \in ClockFrom(now) :
                    /\ posts' = SetAt(posts, index,
                                      InMemory_updatedPost(At(posts, index), post, t))
                    /\ now' = t
                    /\ last' = Call("updatePost", post, "resolved",
                                    inMemoryPostToPostModel(At(posts', index)),
                                    Len(posts), index)
             ELSE /\ last' = Call("updatePost", post, "pending", Undefined,
                                  Len(posts), index)
                  /\ UNCHANGED <<posts, now>>
    /\ prev' = NoCall
    /\ UNCHANGED <<twin, loads, tasks, repo, creates, FilePosts, db>>

InMemory_deletePost ==
    /\ repo = "in-memory"
    /\ \E id \in Ids :
         LET index == InMemory_deleteIndex(posts, id)
         IN  IF index # -1
             THEN /\ posts' = Splice(posts, index)
                  /\ last' = Call("deletePost", [id |-> id], "resolved",
                                  [num |-> id], Len(posts), index)
             ELSE /\ last' = Call("deletePost", [id |-> id], "pending", Undefined,
                                  Len(posts), index)
                  /\ UNCHANGED posts
    /\ prev' = NoCall
    /\ UNCHANGED <<twin, loads, tasks, repo, creates, FilePosts, db, now>>

(***************************************************************************)
(* FileRepository                                                          *)
(***************************************************************************)
\* The text of db.json is modelled as the JSON value it denotes.
EmptyFile == [json |-> <<>>]

\* db.json holding the sample posts of the in-memory backend.
SampleFile ==
    [json |->
      << [id |-> 1, title |-> "First Post", desc |-> "This is the first post",
          body |-> "This is the first post", author |-> "johndoe",
          added |-> toISOString(NewDate(SeedTime)),
          updated |-> toISOString(NewDate(SeedTime))],
         [id |-> 2, title |-> "Second Post", desc |-> "This is the second post",
          body |-> "This is the second post", author |-> "janedoe",
          added |-> toISOString(NewDate(SeedTime)),
          updated |-> toISOString(NewDate(SeedTime))] >>]

SeedFiles == {EmptyFile, SampleFile}

\* JSON.parse: the value the text denotes.  No reviver is given, so a time
\* stays the string the text holds.
JSONParse(text) == text.json

\* JSON.stringify of one value of a record: a Date becomes its toISOString.
ToJSON(v) == IF v.k = "Date" THEN toISOString(v) ELSE v

\* A variant of JSONStringify that writes every author as the empty text.
JSONStringify_blankAuthor(fps) ==
    [json |-> [i \in DOMAIN fps |->
                [fps[i] EXCEPT !.added = ToJSON(@), !.updated = ToJSON(@),
                               !.author = ""]]]

\* JSON.stringify of the collection.
JSONStringify(fps) ==
    [json |-> [i \in DOMAIN fps |->
                [fps[i] EXCEPT !.added = ToJSON(@), !.updated = ToJSON(@)]]]

\* db.json when Deno.readTextFile or JSON.parse of it throws: the file is
\* missing, may not be read, or does not hold JSON.
Unreadable == [k |-> "unreadable"]

\* The value of FilePosts once it is set: an array.
Array(items) == [k |-> "array", items |-> items]

\* A variant of loadPosts that reads the file at every call.
loadPosts_alwaysReads(fps, text) == JSONParse(text)

\* loadPosts: the elements of FilePosts after the call, read from the file
\* only when FilePosts is not set.
loadPosts(fps, text) == IF fps = Undefined THEN JSONParse(text) ELSE fps.items

\* loadPosts returns without throwing: FilePosts is set, or the file can be
\* read and parsed.
canLoad(fps, text) == fps # Undefined \/ text # Unreadable

\* The count of assignments of FilePosts from the file, after loadPosts.
loadsAfter(fps, n) == IF fps = Undefined THEN n + 1 ELSE n

filePostToPostModel(filePost) ==
    [id |-> filePost.id,
     title |-> filePost.title,
     description |-> filePost.desc,
     body |-> filePost.body,
     createdBy |-> filePost.author,
     created |-> filePost.added,
     updated |-> filePost.updated]

\* getAllPosts: the value returned.
File_getAllPosts_value(fps) ==
    [i \in DOMAIN fps |-> filePostToPostModel(fps[i])]

\* getPostById: the value returned.
File_getPostById_value(fps, id) ==
    LET post == find(fps, [i \in DOMAIN fps |-> fps[i].id = id])
    IN  IF post # Undefined THEN filePostToPostModel(post) ELSE Undefined

\* createPost: the record built from the payload, the clock read twice.
File_newPost(fps, post, t1, t2) ==
    [id |-> Len(fps) + 1,
     title |-> post.title,
     desc |-> post.description,
     body |-> post.body,
     author |-> post.createdBy,
     added |-> NewDate(t1),
     updated |-> NewDate(t2)]

\* updatePost: the index found.
File_updateIndex(fps, post) ==
    findIndex([i \in DOMAIN fps |-> fps[i].id = post.id])

\* updatePost: the record stored at the index found.
File_updatedPost(old, post, t) ==
    [old EXCEPT !.title = post.title,
                !.desc = post.description,
                !.body = post.body,
                !.updated = NewDate(t)]

\* deletePost: the index found.
File_deleteIndex(fps, id) ==
    findIndex([i \in DOMAIN fps |-> fps[i].id = id])

File_getAllPosts ==
    /\ repo = "file"
    /\ canLoad(FilePosts, db)
    /\ loads' = loadsAfter(FilePosts, loads)
    /\ LET loaded == loadPosts(FilePosts, db)
       IN  /\ FilePosts' = Array(loaded)
           /\ last' = Call("getAllPosts", Undefined, "resolved",
                           [list |-> File_getAllPosts_value(loaded)], Len(loaded), -1)
    /\ prev' = latestGetAll(last, prev)
    /\ UNCHANGED <<twin, tasks, repo, creates, posts, db, now>>

File_getPostById ==
    /\ repo = "file"
    /\ canLoad(FilePosts, db)
    /\ loads' = loadsAfter(FilePosts, loads)
    /\ LET loaded == loadPosts(FilePosts, db)
       IN  /\ FilePosts' = Array(loaded)
           /\ \E id \in Ids :
                last' = Call("getPostById", [id |-> id], "resolved",
                             File_getPostById_value(loaded, id), Len(loaded),
                             findIndex([i \in DOMAIN loaded |-> loaded[i].id = id]))
    /\ prev' = latestGetAll(last, prev)
    /\ UNCHANGED <<twin, tasks, repo, creates, posts, db, now>>

File_createPost ==
    /\ repo = "file"
    /\ canLoad(FilePosts, db)
    /\ loads' = loadsAfter(FilePosts, loads)
    /\ creates < MaxCreates
    /\ creates' = creates + 1
    /\ LET loaded == loadPosts(FilePosts, db)
       IN  \E post \in CreatePayloads : \E t1 \in ClockFrom(now) : \E t2 \in ClockFrom(t1) :
                LET newPost == File_newPost(loaded, post, t1, t2)
                IN  /\ FilePosts' = Array(Append(loaded, newPost))
                    /\ db' = JSONStringify(FilePosts'.items)
                    /\ now' = t2
                    /\ last' = Call("createPost", post, "resolved",
                                    filePostToPostModel(newPost), Len(loaded), Len(loaded))
    /\ prev' = last
    /\ UNCHANGED <<twin, tasks, repo, posts>>

File_updatePost ==
    /\ repo = "file"
    /\ canLoad(FilePosts, db)
    /\ loads' = loadsAfter(FilePosts, loads)
    /\ LET loaded == loadPosts(FilePosts, db)
       IN  \E post \in UpdatePayloads :
             LET index == File_updateIndex(loaded, post)
             IN  IF index # -1
                 THEN \E t \in ClockFrom(now) :
                        LET updatedPost == File_updatedPost(At(loaded, index), post, t)
                        IN  /\ FilePosts' = Array(SetAt(loaded, index, updatedPost))
                            /\ db' = JSONStringify(FilePosts'.items)
                            /\ now' = t
                            /\ last' = Call("updatePost", post, "resolved",
                                            filePostToPostModel(updatedPost),
                                            Len(loaded), index)
                 ELSE /\ FilePosts' = Array(loaded)
                      /\ last' = Call("updatePost", post, "rejected", NotFoundError,
                                      Len(loaded), index)
                      /\ UNCHANGED <<db, now>>
    /\ prev' = NoCall
    /\ UNCHANGED <<twin, tasks, repo, creates, posts>>

File_deletePost ==
    /\ repo = "file"
    /\ canLoad(FilePosts, db)
    /\ loads' = loadsAfter(FilePosts, loads)
    /\ LET loaded == loadPosts(FilePosts, db)
       IN  \E id \in Ids :
             LET index == File_deleteIndex(loaded, id)
             IN  IF index # -1
                 THEN LET deletedPost == At(loaded, index)
                      IN  /\ FilePosts' = Array(Splice(loaded, index))
                          /\ db' = JSONStringify(FilePosts'.items)
                          /\ last' = Call("deletePost", [id |-> id], "resolved",
                                          [num |-> deletedPost.id], Len(loaded), index)
                 ELSE /\ FilePosts' = Array(loaded)
                      /\ last' = Call("deletePost", [id |-> id], "rejected",
                                      NotFoundError, Len(loaded), index)
                      /\ UNCHANGED db
    /\ prev' = NoCall
    /\ UNCHANGED <<twin, tasks, repo, creates, posts, now>>

(***************************************************************************)
(* The specification                                                       *)
(***************************************************************************)
Init ==
    /\ repo \in {"in-memory", "file"}
    /\ posts = SeedPosts
    /\ FilePosts = Undefined
    /\ db \in (IF repo = "file" THEN SeedFiles ELSE {EmptyFile})
    /\ now = SeedTime
    /\ creates = 0
    /\ last = NoCall
    /\ prev = NoCall
    /\ twin = NoCall
    /\ loads = 0
    /\ tasks = <<>>

Next ==
    \/ InMemory_getAllPosts
    \/ InMemory_getPostById
    \/ InMemory_createPost
    \/ InMemory_updatePost
    \/ InMemory_deletePost
    \/ File_getAllPosts
    \/ File_getPostById
    \/ File_createPost
    \/ File_updatePost
    \/ File_deletePost

Spec == Init /\ [][Next]_vars

(***************************************************************************)
(* Both backends driven together: every call is made on an                 *)
(* InMemoryRepository and on a FileRepository whose file holds the sample  *)
(* posts, with the same argument and the same clock reads.  `last` is the  *)
(* InMemoryRepository's call and `twin` the FileRepository's.              *)
(***************************************************************************)
Both_getAllPosts ==
    /\ repo = "both"
    /\ canLoad(FilePosts, db)
    /\ loads' = loadsAfter(FilePosts, loads)
    /\ LET loaded == loadPosts(FilePosts, db)
       IN  /\ FilePosts' = Array(loaded)
           /\ twin' = Call("getAllPosts", Undefined, "resolved",
                           [list |-> File_getAllPosts_value(loaded)], Len(loaded), -1)
    /\ last' = Call("getAllPosts", Undefined, "resolved",
                    [list |-> InMemory_getAllPosts_value(posts)], Len(posts), -1)
    /\ UNCHANGED <<repo, posts, db, now, creates, prev, tasks>>

Both_getPostById ==
    /\ repo = "both"
    /\ canLoad(FilePosts, db)
    /\ loads' = loadsAfter(FilePosts, loads)
    /\ LET loaded == loadPosts(FilePosts, db)
       IN  /\ FilePosts' = Array(loaded)
           /\ \E id \in Ids :
                /\ twin' = Call("getPostById", [id |-> id], "resolved",
                                File_getPostById_value(loaded, id), Len(loaded),
                                findIndex([i \in DOMAIN loaded |-> loaded[i].id = id]))
                /\ last' = Call("getPostById", [id |-> id], "resolved",
                                InMemory_getPostById_value(posts, id), Len(posts),
                                findIndex([i \in DOMAIN posts |->
                                             posts[i].id = String(id)]))
    /\ UNCHANGED <<repo, posts, db, now, creates, prev, tasks>>

Both_createPost ==
    /\ repo = "both"
    /\ canLoad(FilePosts, db)
    /\ loads' = loadsAfter(FilePosts, loads)
    /\ creates < MaxCreates
    /\ creates' = creates + 1
    /\ LET loaded == loadPosts(FilePosts, db)
       IN  \E post \in CreatePayloads : \E t1 \in ClockFrom(now) : \E t2 \in ClockFrom(t1) :
             LET newFilePost == File_newPost(loaded, post, t1, t2)
                 newPost == InMemory_newPost(posts, post, t1, t2)
             IN  /\ FilePosts' = Array(Append(loaded, newFilePost))
                 /\ db' = JSONStringify(FilePosts'.items)
                 /\ twin' = Call("createPost", post, "resolved",
                                 filePostToPostModel(newFilePost),
                                 Len(loaded), Len(loaded))
                 /\ posts' = Append(posts, newPost)
                 /\ last' = Call("createPost", post, "resolved",
                                 inMemoryPostToPostModel(newPost), Len(posts), Len(posts))
                 /\ now' = t2
    /\ UNCHANGED <<repo, prev, tasks>>

Both_updatePost ==
    /\ repo = "both"
    /\ canLoad(FilePosts, db)
    /\ loads' = loadsAfter(FilePosts, loads)
    /\ LET loaded == loadPosts(FilePosts, db)
       IN  \E post \in UpdatePayloads : \E t \in ClockFrom(now) :
             LET fileIndex == File_updateIndex(loaded, post)
                 index == InMemory_updateIndex(posts, post)
             IN  /\ IF fileIndex # -1
                    THEN LET updatedPost ==
                               File_updatedPost(At(loaded, fileIndex), post, t)
                         IN  /\ FilePosts' = Array(SetAt(loaded, fileIndex, updatedPost))
                             /\ db' = JSONStringify(FilePosts'.items)
                             /\ twin' = Call("updatePost", post, "resolved",
                                             filePostToPostModel(updatedPost),
                                             Len(loaded), fileIndex)
                    ELSE /\ FilePosts' = Array(loaded)
                         /\ twin' = Call("updatePost", post, "rejected", NotFoundError,
                                         Len(loaded), fileIndex)
                         /\ UNCHANGED db
                 /\ IF index # -1
                    THEN /\ posts' = SetAt(posts, index,
                                           InMemory_updatedPost(At(posts, index), post, t))
                         /\ last' = Call("updatePost", post, "resolved",
                                         inMemoryPostToPostModel(At(posts', index)),
                                         Len(posts), index)
                    ELSE /\ last' = Call("updatePost", post, "pending", Undefined,
                                         Len(posts), index)
                         /\ UNCHANGED posts
                 /\ now' = IF fileIndex # -1 \/ index # -1 THEN t ELSE now
    /\ UNCHANGED <<repo, creates, prev, tasks>>

Both_deletePost ==
    /\ repo = "both"
    /\ canLoad(FilePosts, db)
    /\ loads' = loadsAfter(FilePosts, loads)
    /\ LET loaded == loadPosts(FilePosts, db)
       IN  \E id \in Ids :
             LET fileIndex == File_deleteIndex(loaded, id)
                 index == InMemory_deleteIndex(posts, id)
             IN  /\ IF fileIndex # -1
                    THEN /\ FilePosts' = Array(Splice(loaded, fileIndex))
                         /\ db' = JSONStringify(FilePosts'.items)
                         /\ twin' = Call("deletePost", [id |-> id], "resolved",
                                         [num |-> At(loaded, fileIndex).id],
                                         Len(loaded), fileIndex)
                    ELSE /\ FilePosts' = Array(loaded)
                         /\ twin' = Call("deletePost", [id |-> id], "rejected",
                                         NotFoundError, Len(loaded), fileIndex)
                         /\ UNCHANGED db
                 /\ IF index # -1
                    THEN /\ posts' = Splice(posts, index)
                         /\ last' = Call("deletePost", [id |-> id], "resolved",
                                         [num |-> id], Len(posts), index)
                    ELSE /\ last' = Call("deletePost", [id |-> id], "pending", Undefined,
                                         Len(posts), index)
                         /\ UNCHANGED posts
    /\ UNCHANGED <<repo, now, creates, prev, tasks>>

BothInit ==
    /\ repo = "both"
    /\ posts = SeedPosts
    /\ FilePosts = Undefined
    /\ db = SampleFile
    /\ now = SeedTime
    /\ creates = 0
    /\ last = NoCall
    /\ prev = NoCall
    /\ twin = NoCall
    /\ loads = 0
    /\ tasks = <<>>

BothNext ==
    \/ Both_getAllPosts
    \/ Both_getPostById
    \/ Both_createPost
    \/ Both_updatePost
    \/ Both_deletePost

SpecBoth == BothInit /\ [][BothNext]_vars

(***************************************************************************)
(* The file as storage that can fail and that others can change: db.json   *)
(* may be unreadable, Deno.writeTextFile may throw, and another party may  *)
(* replace the file between two calls.                                     *)
(***************************************************************************)
ReadError == [error |-> "db.json cannot be read"]

WriteError == [error |-> "db.json cannot be written"]

\* The calls a caller can make on a FileRepository.
FileCalls ==
    {[op |-> "getAllPosts", arg |-> Undefined]}
      \cup {[op |-> "getPostById", arg |-> [id |-> i]] : i \in Ids}
      \cup {[op |-> "createPost", arg |-> p] : p \in CreatePayloads}
      \cup {[op |-> "updatePost", arg |-> p] : p \in UpdatePayloads}
      \cup {[op |-> "deletePost", arg |-> [id |-> i]] : i \in Ids}

\* A variant of File_loadThrown in which the handler catches the error and
\* goes on with an empty collection.
File_loadThrown_swallowed(op, arg) ==
    Call(op, arg, "resolved", [list |-> <<>>], 0, -1)

\* The call whose `await this.loadPosts()` throws: no handler catches, so the
\* promise of the async method rejects with the error.
File_loadThrown(op, arg) == Call(op, arg, "rejected", ReadError, 0, -1)

\* Any handler, FilePosts not set and the file unreadable: loadPosts throws at
\* the handler's first statement.
File_loadPostsThrows ==
    /\ repo = "file"
    /\ ~canLoad(FilePosts, db)
    /\ \E c \in FileCalls : last' = File_loadThrown(c.op, c.arg)
    /\ prev' = NoCall
    /\ UNCHANGED <<repo, posts, FilePosts, db, now, creates, twin, loads, tasks>>

\* createPost when Deno.writeTextFile throws: the push is done already.
File_createPost_writeThrows ==
    /\ repo = "file"
    /\ canLoad(FilePosts, db)
    /\ loads' = loadsAfter(FilePosts, loads)
    /\ creates < MaxCreates
    /\ creates' = creates + 1
    /\ LET loaded == loadPosts(FilePosts, db)
       IN  \E post \in CreatePayloads : \E t1 \in ClockFrom(now) : \E t2 \in ClockFrom(t1) :
                LET newPost == File_newPost(loaded, post, t1, t2)
                IN  /\ FilePosts' = Array(Append(loaded, newPost))
                    /\ now' = t2
                    /\ last' = Call("createPost", post, "rejected", WriteError,
                                    Len(loaded), Len(loaded))
    /\ prev' = last
    /\ UNCHANGED <<twin, tasks, repo, posts, db>>

\* updatePost of a post found when Deno.writeTextFile throws: the element is
\* assigned already.
File_updatePost_writeThrows ==
    /\ repo = "file"
    /\ canLoad(FilePosts, db)
    /\ loads' = loadsAfter(FilePosts, loads)
    /\ LET loaded == loadPosts(FilePosts, db)
       IN  \E post \in UpdatePayloads : \E t \in ClockFrom(now) :
             LET index == File_updateIndex(loaded, post)
             IN  /\ index # -1
                 /\ FilePosts' = Array(SetAt(loaded, index,
                                   File_updatedPost(At(loaded, index), post, t)))
                 /\ now' = t
                 /\ last' = Call("updatePost", post, "rejected", WriteError,
                                 Len(loaded), index)
    /\ prev' = NoCall
    /\ UNCHANGED <<twin, tasks, repo, creates, posts, db>>

\* deletePost of a post found when Deno.writeTextFile throws: the splice is
\* done already.
File_deletePost_writeThrows ==
    /\ repo = "file"
    /\ canLoad(FilePosts, db)
    /\ loads' = loadsAfter(FilePosts, loads)
    /\ LET loaded == loadPosts(FilePosts, db)
       IN  \E id \in Ids :
             LET index == File_deleteIndex(loaded, id)
             IN  /\ index # -1
                 /\ FilePosts' = Array(Splice(loaded, index))
                 /\ last' = Call("deletePost", [id |-> id], "rejected", WriteError,
                                 Len(loaded), index)
    /\ prev' = NoCall
    /\ UNCHANGED <<twin, tasks, repo, creates, posts, db, now>>

\* Another party replaces db.json by an empty collection between two calls of
\* the caller.
External_writeFile ==
    /\ repo = "file"
    /\ db # EmptyFile
    /\ db' = EmptyFile
    /\ last' = NoCall
    /\ prev' = latestGetAll(last, prev)
    /\ UNCHANGED <<repo, posts, FilePosts, now, creates, twin, loads, tasks>>

\* Another party removes db.json, or leaves in it what is not JSON, between
\* two calls of the caller.
External_removeFile ==
    /\ repo = "file"
    /\ db # Unreadable
    /\ db' = Unreadable
    /\ last' = NoCall
    /\ prev' = latestGetAll(last, prev)
    /\ UNCHANGED <<repo, posts, FilePosts, now, creates, twin, loads, tasks>>

\* The caller of either backend, and another party that changes the file.
\* The clock shows its last instant from the start: every timestamp taken is
\* that instant.
StorageInit ==
    /\ repo \in {"in-memory", "file"}
    /\ posts = SeedPosts
    /\ FilePosts = Undefined
    /\ db \in (IF repo = "file" THEN SeedFiles ELSE {EmptyFile})
    /\ now = MaxClock
    /\ creates = 0
    /\ last = NoCall
    /\ prev = NoCall
    /\ twin = NoCall
    /\ loads = 0
    /\ tasks = <<>>

StorageNext ==
    \/ Next
    \/ External_writeFile

SpecStorage == StorageInit /\ [][StorageNext]_vars

\* The caller of a FileRepository whose file may be unreadable from the start
\* or become so.  The clock shows its last instant from the start.
UnreadableInit ==
    /\ repo = "file"
    /\ posts = SeedPosts
    /\ FilePosts = Undefined
    /\ db \in {SampleFile, Unreadable}
    /\ now = MaxClock
    /\ creates = 0
    /\ last = NoCall
    /\ prev = NoCall
    /\ twin = NoCall
    /\ loads = 0
    /\ tasks = <<>>

UnreadableNext ==
    \/ File_getAllPosts
    \/ File_getPostById
    \/ File_createPost
    \/ File_updatePost
    \/ File_deletePost
    \/ File_loadPostsThrows
    \/ External_removeFile

SpecUnreadable == UnreadableInit /\ [][UnreadableNext]_vars

\* The caller of a FileRepository whose writes can fail.
WriteInit ==
    /\ repo = "file"
    /\ posts = SeedPosts
    /\ FilePosts = Undefined
    /\ db \in SeedFiles
    /\ now = SeedTime
    /\ creates = 0
    /\ last = NoCall
    /\ prev = NoCall
    /\ twin = NoCall
    /\ loads = 0
    /\ tasks = <<>>

WriteNext ==
    \/ File_getAllPosts
    \/ File_getPostById
    \/ File_createPost
    \/ File_updatePost
    \/ File_deletePost
    \/ File_createPost_writeThrows
    \/ File_updatePost_writeThrows
    \/ File_deletePost_writeThrows

SpecWrite == WriteInit /\ [][WriteNext]_vars

(***************************************************************************)
(* createPost calls of a FileRepository started without awaiting the ones  *)
(* before.  A call runs up to its next await in one step: the check of     *)
(* FilePosts and the start of the read; the read of the file; the          *)
(* assignment of FilePosts; the push and the start of the write; the       *)
(* write.  `tasks` holds each call's position and locals.                  *)
(***************************************************************************)
\* A call just started: `early` tells that FilePosts was not set, so that
\* loadPosts has started a read.
NewTask(post, fps) ==
    [pc |-> IF fps = Undefined THEN "reading" ELSE "loaded",
     early |-> (fps = Undefined),
     post |-> post, data |-> Undefined, text |-> Undefined, value |-> Undefined]

\* The caller calls createPost: the handler calls loadPosts, which tests
\* FilePosts and, when it is not set, calls Deno.readTextFile and awaits.
Async_createPost ==
    /\ Len(tasks) < MaxTasks
    /\ \E post \in CreatePayloads : tasks' = Append(tasks, NewTask(post, FilePosts))
    /\ UNCHANGED <<repo, posts, FilePosts, db, now, creates, last, prev, twin, loads>>

\* Deno.readTextFile of a call reads the file.
Async_readTextFile ==
    /\ \E i \in DOMAIN tasks :
         /\ tasks[i].pc = "reading"
         /\ tasks' = [tasks EXCEPT ![i].pc = "read", ![i].data = db]
    /\ UNCHANGED <<repo, posts, FilePosts, db, now, creates, last, prev, twin, loads>>

\* loadPosts of a call resumes with the text read: FilePosts = JSON.parse(data).
Async_loadPosts ==
    /\ \E i \in DOMAIN tasks :
         /\ tasks[i].pc = "read"
         /\ FilePosts' = Array(JSONParse(tasks[i].data))
         /\ tasks' = [tasks EXCEPT ![i].pc = "loaded"]
    /\ loads' = loads + 1
    /\ UNCHANGED <<repo, posts, db, now, creates, last, prev, twin>>

\* createPost of a call resumes after loadPosts: it builds the record, pushes
\* it, serializes FilePosts and calls Deno.writeTextFile.
Async_push ==
    /\ \E i \in DOMAIN tasks : \E t1 \in ClockFrom(now) : \E t2 \in ClockFrom(t1) :
         LET newPost == File_newPost(FilePosts.items, tasks[i].post, t1, t2)
         IN  /\ tasks[i].pc = "loaded"
             /\ FilePosts' = Array(Append(FilePosts.items, newPost))
             /\ now' = t2
             /\ tasks' = [tasks EXCEPT ![i].pc = "writing",
                                       ![i].text = JSONStringify(FilePosts'.items),
                                       ![i].value = filePostToPostModel(newPost)]
    /\ UNCHANGED <<repo, posts, db, creates, last, prev, twin, loads>>

\* Deno.writeTextFile of a call writes the file, and the call returns.
Async_writeTextFile ==
    /\ \E i \in DOMAIN tasks :
         /\ tasks[i].pc = "writing"
         /\ db' = tasks[i].text
         /\ tasks' = [tasks EXCEPT ![i].pc = "done"]
    /\ UNCHANGED <<repo, posts, FilePosts, now, creates, last, prev, twin, loads>>

AsyncInit ==
    /\ repo = "file"
    /\ posts = SeedPosts
    /\ FilePosts = Undefined
    /\ db \in SeedFiles
    /\ now = SeedTime
    /\ creates = 0
    /\ last = NoCall
    /\ prev = NoCall
    /\ twin = NoCall
    /\ loads = 0
    /\ tasks = <<>>

AsyncNext ==
    \/ Async_createPost
    \/ Async_readTextFile
    \/ Async_loadPosts
    \/ Async_push
    \/ Async_writeTextFile

SpecAsync == AsyncInit /\ [][AsyncNext]_vars

(***************************************************************************)
(* What a caller of the contract observes                                  *)
(***************************************************************************)
\* The stored posts as the contract shows them (what getAllPosts would return).
StoredPosts ==
    IF repo = "in-memory"
    THEN InMemory_getAllPosts_value(posts)
    ELSE File_getAllPosts_value(loadPosts(FilePosts, db))

\* Some stored post has this id.
HasId(id) == \E i \in DOMAIN StoredPosts : StoredPosts[i].id = id

\* The call just made removed the last element of the collection.
RemovedLast(call) ==
    /\ call.op = "deletePost"
    /\ call.outcome = "resolved"
    /\ call.index = call.len - 1

(***************************************************************************)
(* Claims                                                                  *)
(***************************************************************************)

\* C1: on either backend, updatePost with an id that no stored post has fails
\* with the NotFound error: it neither resolves nor stays pending.
C1_UpdateMissingFails ==
    [][ (last'.op = "updatePost" /\ ~HasId(last'.arg.id))
          => (last'.outcome = "rejected" /\ last'.value = NotFoundError) ]_vars

\* C2: on either backend, deletePost with an id that no stored post has fails
\* with the NotFound error: it neither resolves nor stays pending.
C2_DeleteMissingFails ==
    [][ (last'.op = "deletePost" /\ ~HasId(last'.arg.id))
          => (last'.outcome = "rejected" /\ last'.value = NotFoundError) ]_vars

\* C3: every call completes: its promise is resolved or rejected when the
\* handler has run, never left pending.
C3_EveryCallCompletes ==
    last.op # "none" => last.outcome \in {"resolved", "rejected"}

\* C4: updatePost with the id of a stored post X, at any position, resolves
\* with a Post that has the new title, description and body, X's id, createdBy
\* and created, and updated >= X.updated; getPostById(X.id) made next returns
\* that Post.
C4_UpdateRoundTrip ==
    [][ last'.op = "updatePost" =>
          \A i \in DOMAIN StoredPosts :
            LET X == StoredPosts[i]
            IN  X.id = last'.arg.id =>
                  /\ last'.outcome = "resolved"
                  /\ last'.value.title = last'.arg.title
                  /\ last'.value.description = last'.arg.description
                  /\ last'.value.body = last'.arg.body
                  /\ last'.value.id = X.id
                  /\ last'.value.createdBy = X.createdBy
                  /\ last'.value.created = X.created
                  /\ TimeOf(last'.value.updated) >= TimeOf(X.updated)
                  /\ ( IF repo = "in-memory"
                       THEN InMemory_getPostById_value(posts', X.id)
                       ELSE File_getPostById_value(FilePosts'.items, X.id) )
                     = last'.value ]_vars

\* C5: when createPost has returned Post X, the getPostById(X.id) made next
\* returns a Post equal to X.
C5_CreateThenGet ==
    [][ ( /\ last.op = "createPost"
          /\ last.outcome = "resolved"
          /\ last'.op = "getPostById"
          /\ last'.arg.id = last.value.id )
          => last'.value = last.value ]_vars

\* C6: deletePost(X.id) of a stored post X resolves with X.id, and the
\* getPostById(X.id) made next resolves to undefined.
C6_DeleteThenGet ==
    [][ /\ (last'.op = "deletePost" /\ HasId(last'.arg.id))
          => (last'.outcome = "resolved" /\ last'.value = [num |-> last'.arg.id])
        /\ ( /\ last.op = "deletePost"
             /\ last.outcome = "resolved"
             /\ last'.op = "getPostById"
             /\ last'.arg.id = last.arg.id )
          => last'.value = Undefined ]_vars

\* C7: no two stored posts have the same id, and createPost never returns an
\* id that a stored post has when it is called.
C7_UniqueIds ==
    /\ \A i, j \in DOMAIN StoredPosts : i # j => StoredPosts[i].id # StoredPosts[j].id
    /\ (last.op = "createPost" =>
          \A i \in 1..last.len : StoredPosts[i].id # last.value.id)

\* C8: createPost(P) returns a Post with P's title, description, body and
\* createdBy and with created equal to updated, and the collection becomes the
\* one before the call with that Post appended.
C8_CreateResult ==
    [][ last'.op = "createPost" =>
          /\ last'.outcome = "resolved"
          /\ last'.value.title = last'.arg.title
          /\ last'.value.description = last'.arg.description
          /\ last'.value.body = last'.arg.body
          /\ last'.value.createdBy = last'.arg.createdBy
          /\ last'.value.created = last'.value.updated
          /\ StoredPosts' = Append(StoredPosts, last'.value) ]_vars

\* C9, as stated: createPost assigns the number of stored posts plus one, and
\* a createPost that follows the removal of the last element returns the id of
\* the post just removed.
C9_ReusesDeletedId ==
    last.op = "createPost" =>
      /\ last.value.id = last.len + 1
      /\ (RemovedLast(prev) => last.value.id = prev.value.num)

\* C9, amended: createPost assigns the number of stored posts plus one, and a
\* createPost that follows the removal of the last element returns the number
\* of posts stored before that removal, which is the id of the post just
\* removed exactly when that id was equal to that number.
C9_IdIsLengthPlusOne ==
    last.op = "createPost" =>
      /\ last.value.id = last.len + 1
      /\ (RemovedLast(prev) =>
            /\ last.value.id = prev.len
            /\ (last.value.id = prev.value.num <=> prev.value.num = prev.len))

\* A createPost has followed the removal of the last element and returned the
\* id of the post removed.
C9_Witness ==
    /\ last.op = "createPost"
    /\ RemovedLast(prev)
    /\ last.value.id = prev.value.num

\* C10: with a clock that never goes backwards and never shows an instant
\* before the seed's, every stored post has created <= updated.
C10_CreatedBeforeUpdated ==
    \A i \in DOMAIN StoredPosts :
      TimeOf(StoredPosts[i].created) <= TimeOf(StoredPosts[i].updated)

\* An updatePost has resolved and left a stored post with created < updated.
C10_Witness ==
    /\ last.op = "updatePost"
    /\ last.outcome = "resolved"
    /\ \E i \in DOMAIN StoredPosts :
         TimeOf(StoredPosts[i].created) < TimeOf(StoredPosts[i].updated)

\* A Post without its timestamps.
Untimed(post) ==
    [id |-> post.id, title |-> post.title, description |-> post.description,
     body |-> post.body, createdBy |-> post.createdBy]

UntimedList(list) == [i \in DOMAIN list |-> Untimed(list[i])]

\* The value a call delivered, timestamps left out.
UntimedValue(call) ==
    IF call.outcome # "resolved" THEN call.value
    ELSE IF call.op = "getAllPosts" THEN [list |-> UntimedList(call.value.list)]
    ELSE IF call.op = "deletePost" \/ call.value = Undefined THEN call.value
    ELSE Untimed(call.value)

\* C11: driven together from the same stored posts, the two backends give
\* every call the same outcome and the same value, and hold the same posts
\* after it, timestamps left out.
C11_BackendsAgree ==
    /\ last.outcome = twin.outcome
    /\ UntimedValue(last) = UntimedValue(twin)
    /\ UntimedList(InMemory_getAllPosts_value(posts))
         = UntimedList(File_getAllPosts_value(loadPosts(FilePosts, db)))

C13_WriteThrough ==
    ( /\ repo = "file"
      /\ last.op \in {"createPost", "updatePost", "deletePost"}
      /\ last.outcome = "resolved" )
      => /\ db = JSONStringify(FilePosts.items)
         /\ UntimedList(File_getAllPosts_value(loadPosts(Undefined, db)))
              = UntimedList(File_getAllPosts_value(FilePosts.items))

\* A deletePost has resolved on a FileRepository after a createPost, leaving
\* at least two posts.
C13_Witness ==
    /\ repo = "file"
    /\ last.op = "deletePost"
    /\ last.outcome = "resolved"
    /\ creates = 1
    /\ Len(FilePosts.items) >= 2

\* C14, as stated: whenever the file cannot be read or parsed, a call on a
\* FileRepository is rejected with the read error and the file is not written.
C14_UnreadableAlwaysFails ==
    [][ (db = Unreadable /\ last'.op # "none")
          => (last'.outcome = "rejected" /\ last'.value = ReadError /\ db' = db) ]_vars

\* C14, amended: whenever the file cannot be read or parsed and the
\* FileRepository has not loaded it yet, a call is rejected with the read
\* error, the file is not written and FilePosts stays unset.
C14_UnloadedUnreadableFails ==
    [][ (FilePosts = Undefined /\ db = Unreadable /\ last'.op # "none")
          => /\ last'.outcome = "rejected"
             /\ last'.value = ReadError
             /\ db' = db
             /\ FilePosts' = Undefined ]_vars

\* A createPost has been rejected with the read error on a FileRepository that
\* never loaded its file.
C14_Witness ==
    /\ FilePosts = Undefined
    /\ db = Unreadable
    /\ last.op = "createPost"
    /\ last.outcome = "rejected"
    /\ last.value = ReadError

\* C15: on either backend, two getAllPosts with no createPost, updatePost or
\* deletePost between them (getPostById calls may lie between) return the
\* same list.
C15_ReadsIdempotent ==
    (last.op = "getAllPosts" /\ prev.op = "getAllPosts") => last.value = prev.value

\* A second getAllPosts has returned the posts of a FileRepository whose file
\* another party had emptied.
C15_Witness ==
    /\ last.op = "getAllPosts"
    /\ prev.op = "getAllPosts"
    /\ repo = "file"
    /\ db = EmptyFile
    /\ Len(last.value.list) > 0

\* C16: an InMemoryRepository as constructed returns from getAllPosts exactly
\* two posts, with ids 1 and 2 and titles "First Post" and "Second Post" in
\* that order, and its createPost returns a Post with id 3.
C16_FreshInMemory ==
    [][ (repo = "in-memory" /\ posts = SeedPosts /\ creates = 0) =>
          /\ (last'.op = "getAllPosts" =>
                /\ Len(last'.value.list) = 2
                /\ last'.value.list[1].id = 1
                /\ last'.value.list[1].title = "First Post"
                /\ last'.value.list[2].id = 2
                /\ last'.value.list[2].title = "Second Post")
          /\ (last'.op = "createPost" =>
                /\ last'.outcome = "resolved"
                /\ last'.value.id = 3) ]_vars

\* On an InMemoryRepository a getAllPosts has returned the two seed posts and
\* the createPost made next has returned id 3.
C16_Witness ==
    /\ repo = "in-memory"
    /\ last.op = "createPost"
    /\ last.value.id = 3
    /\ prev.op = "getAllPosts"
    /\ Len(prev.value.list) = 2
    /\ prev.value.list[1].title = "First Post"
    /\ prev.value.list[2].title = "Second Post"

\* C17: on either backend, an updatePost leaves the number of stored records,
\* their order and every stored record whose id is not the id of the request
\* as they were, whether or not a record has the id of the request.
C17_UpdateTouchesOnlyItsId ==
    [][ last'.op = "updatePost" =>
          /\ Len(StoredPosts') = Len(StoredPosts)
          /\ \A i \in DOMAIN StoredPosts :
                /\ StoredPosts'[i].id = StoredPosts[i].id
                /\ (StoredPosts[i].id # last'.arg.id => StoredPosts'[i] = StoredPosts[i])
      ]_vars

\* C18: on either backend, a deletePost(id) that resolves removes exactly the
\* first record in collection order whose id is id: the records before it and
\* after it stay, with their contents and in their order.
C18_DeleteRemovesFirst ==
    [][ (last'.op = "deletePost" /\ last'.outcome = "resolved") =>
          \E k \in DOMAIN StoredPosts :
            /\ StoredPosts[k].id = last'.arg.id
            /\ \A j \in 1..(k - 1) : StoredPosts[j].id # last'.arg.id
            /\ StoredPosts' = SubSeq(StoredPosts, 1, k - 1)
                                \o SubSeq(StoredPosts, k + 1, Len(StoredPosts))
      ]_vars

\* A deletePost has resolved and left another record with the same id: of
\* two records with the id, one was removed.
C18_Witness ==
    /\ last.op = "deletePost"
    /\ last.outcome = "resolved"
    /\ \E i \in DOMAIN StoredPosts : StoredPosts[i].id = last.arg.id

\* C19: when the file write of a createPost, updatePost or deletePost of a
\* FileRepository fails, the call is rejected and the cache holds what it
\* held before the call, which is what the file holds.
C19_FailedWriteKeepsCache ==
    [][ last'.value = WriteError =>
          /\ last'.outcome = "rejected"
          /\ FilePosts'.items = loadPosts(FilePosts, db)
          /\ UntimedList(File_getAllPosts_value(FilePosts'.items))
               = UntimedList(File_getAllPosts_value(JSONParse(db'))) ]_vars

\* The records of a collection that show as this Post.
Holds(fps, post) == \E k \in DOMAIN fps : Untimed(filePostToPostModel(fps[k])) = Untimed(post)

\* C20: when two createPost calls were started on a FileRepository before
\* FilePosts was set and both have returned, FilePosts was assigned from the
\* file once, both created posts are in FilePosts and in the file, and their
\* ids differ.
C20_ConcurrentCreates ==
    ( /\ Len(tasks) = 2
      /\ \A i \in DOMAIN tasks : tasks[i].early /\ tasks[i].pc = "done" )
      => /\ loads = 1
         /\ tasks[1].value.id # tasks[2].value.id
         /\ \A i \in DOMAIN tasks :
              /\ Holds(FilePosts.items, tasks[i].value)
              /\ Holds(JSONParse(db), tasks[i].value)

====
